---------------------------- MODULE Spec2Model ----------------------------
(***************************************************************************)
(* The annotation schema of snorkel/models/annotation.py as a state        *)
(* machine: the tables annotation_key, candidate, label, feature,          *)
(* prediction and stable_label are sets of rows, and the actions are the   *)
(* ORM session operations on them (add + flush, delete + flush, attribute  *)
(* assignment + flush).  An operation the declared constraints forbid is   *)
(* rejected by the engine: it leaves every table as it was and reports the *)
(* violated constraint.                                                    *)
(*                                                                         *)
(* A column value is modelled as an option: <<>> is NULL / None and <<v>>  *)
(* is the value v.                                                         *)
(***************************************************************************)
EXTENDS Integers, Sequences, FiniteSets, TLC

\* ---- bounds of the model ------------------------------------------------
MaxKeyId == 2
MaxCandId == 2
MaxOps == 6

KeyIds == 1..MaxKeyId
CandIds == 1..MaxCandId
Values == {1}
Splits == {1}
Names == {"lf", "gold"}
Contexts == {"doc1"}
Annotators == {"ann", "bob"}

NULL == <<>>
Some(v) == <<v>>
Opt(S) == {NULL} \cup {Some(v) : v \in S}

\* camel_to_under(cls.__name__) of the three AnnotationMixin subclasses
AnnotationTables == {"label", "feature", "prediction"}

VARIABLES annotation_key, candidate, annotation, stable_label, last, ops

vars == <<annotation_key, candidate, annotation, stable_label, last, ops>>

tables == <<annotation_key, candidate, annotation, stable_label>>

\* ---- rows -----------------------------------------------------------------
KeyRow(i, n) == [id |-> i, name |-> n]

AnnotationRow(k, c, v) == [key_id |-> k, candidate_id |-> c, value |-> v]

StableRow(x, a, s, v) ==
    [context_stable_ids |-> x, annotator_name |-> a, split |-> s, value |-> v]

\* the operation last flushed and how the engine answered it; key and cand are
\* the parent row a delete named (0 otherwise) and removed the child rows the
\* session deleted with it, as <<table, key_id, candidate_id>>
Done(o, k, c, r, d) ==
    [op |-> o, key |-> k, cand |-> c, res |-> r, removed |-> d]

Op(o, k, c, r) == Done(o, k, c, r, {})

Removed(t, rows) == {<<t, r.key_id, r.candidate_id>> : r \in rows}

\* ---- constraints the columns declare --------------------------------------
\* name declared without unique=True
KeyViolations_NoUnique(row, others) ==
    {"primary_key" : r \in {r \in others : r.id = row.id}}
    \cup (IF row.name = NULL THEN {"not_null"} ELSE {})

\* id declared without primary_key=True
KeyViolations_NoPrimaryKey(row, others) ==
    {"unique" : r \in {r \in others : r.name = row.name /\ row.name # NULL}}
    \cup (IF row.name = NULL THEN {"not_null"} ELSE {})

KeyViolations(row, others) ==
    {"primary_key" : r \in {r \in others : r.id = row.id}}
    \cup {"unique" : r \in {r \in others : r.name = row.name /\ row.name # NULL}}
    \cup (IF row.name = NULL THEN {"not_null"} ELSE {})

\* key_id and candidate_id declared without primary_key=True
AnnotationViolations_NoPrimaryKey(t, row, others) ==
    (IF \E k \in annotation_key : k.id = row.key_id
     THEN {} ELSE {"foreign_key"})
    \cup (IF row.candidate_id \in candidate THEN {} ELSE {"foreign_key"})
    \cup (IF row.value = NULL THEN {"not_null"} ELSE {})

\* candidate_id declared without its ForeignKey
AnnotationViolations_NoForeignKey(t, row, others) ==
    {"primary_key" : r \in {r \in others : r.key_id = row.key_id
                                          /\ r.candidate_id = row.candidate_id}}
    \cup (IF \E k \in annotation_key : k.id = row.key_id
          THEN {} ELSE {"foreign_key"})
    \cup (IF row.value = NULL THEN {"not_null"} ELSE {})

\* value declared without nullable=False
AnnotationViolations_Nullable(t, row, others) ==
    {"primary_key" : r \in {r \in others : r.key_id = row.key_id
                                          /\ r.candidate_id = row.candidate_id}}
    \cup (IF \E k \in annotation_key : k.id = row.key_id
          THEN {} ELSE {"foreign_key"})
    \cup (IF row.candidate_id \in candidate THEN {} ELSE {"foreign_key"})

AnnotationViolations(t, row, others) ==
    {"primary_key" : r \in {r \in others : r.key_id = row.key_id
                                          /\ r.candidate_id = row.candidate_id}}
    \cup (IF \E k \in annotation_key : k.id = row.key_id
          THEN {} ELSE {"foreign_key"})
    \cup (IF row.candidate_id \in candidate THEN {} ELSE {"foreign_key"})
    \cup (IF row.value = NULL THEN {"not_null"} ELSE {})

\* stable_label declared with a foreign key into candidate
StableViolations_CandidateFK(row, others) ==
    {"primary_key" : r \in {r \in others :
                              r.context_stable_ids = row.context_stable_ids
                              /\ r.annotator_name = row.annotator_name}}
    \cup (IF candidate = {} THEN {"foreign_key"} ELSE {})
    \cup (IF row.value = NULL THEN {"not_null"} ELSE {})

StableViolations(row, others) ==
    {"primary_key" : r \in {r \in others :
                              r.context_stable_ids = row.context_stable_ids
                              /\ r.annotator_name = row.annotator_name}}
    \cup (IF row.value = NULL THEN {"not_null"} ELSE {})

\* split declared without default=0
SplitDefault_None(s) == s

\* Column(Integer, default=0): the default fires when no split is given
SplitDefault(s) == IF s = NULL THEN Some(0) ELSE s

\* ---- cascades ---------------------------------------------------------------
\* Feature's backref declared without the delete cascade
KeyChildren_SkipFeature(t, k) ==
    IF t = "feature" THEN {} ELSE {r \in annotation[t] : r.key_id = k}

\* the rows of table t the backref <t>s of AnnotationKey k holds
KeyChildren(t, k) == {r \in annotation[t] : r.key_id = k}

\* Prediction's backref declared without the delete cascade
CandidateChildren_SkipPrediction(t, c) ==
    IF t = "prediction" THEN {} ELSE {r \in annotation[t] : r.candidate_id = c}

\* the cascade follows the table, not the candidate
CandidateChildren_AllRows(t, c) == annotation[t]

\* the rows of table t the backref <t>s of Candidate c holds
CandidateChildren(t, c) == {r \in annotation[t] : r.candidate_id = c}

\* ---- the shape of the tables ---------------------------------------------------
\* annotation_key(id, name); candidate(id); label, feature and prediction
\* (key_id, candidate_id, value); stable_label(context_stable_ids,
\* annotator_name, split, value)
TypeOK ==
    /\ annotation_key \subseteq [id : KeyIds, name : Opt(Names)]
    /\ candidate \subseteq CandIds
    /\ \A t \in AnnotationTables :
         annotation[t] \subseteq
             [key_id : KeyIds, candidate_id : CandIds, value : Opt(Values)]
    /\ stable_label \subseteq
           [context_stable_ids : Contexts, annotator_name : Annotators,
            split : Opt(Splits \cup {0}), value : Opt(Values)]
    /\ ops \in 0..MaxOps

\* ---- initial state: the schema just created, every table empty --------------
Init ==
    /\ annotation_key = {}
    /\ candidate = {}
    /\ annotation = [t \in AnnotationTables |-> {}]
    /\ stable_label = {}
    /\ last = Op("create_all", 0, 0, "ok")
    /\ ops = 0

Step == ops < MaxOps /\ ops' = ops + 1

\* ---- AnnotationKey ----------------------------------------------------------
\* session.add(AnnotationKey(id=i, name=n)); an omitted id is assigned by the
\* engine, which picks an id no row has
InsertAnnotationKey(i, n) ==
    /\ Step
    /\ \E id \in (IF i = NULL
                  THEN KeyIds \ {r.id : r \in annotation_key}
                  ELSE {i[1]}) :
         LET row == KeyRow(id, n)
             bad == KeyViolations(row, annotation_key)
         IN  IF bad = {}
             THEN /\ annotation_key' = annotation_key \cup {row}
                  /\ last' = Op("insert_key", 0, 0, "ok")
             ELSE /\ annotation_key' = annotation_key
                  /\ \E e \in bad :
                       last' = Op("insert_key", 0, 0, e)
    /\ UNCHANGED <<candidate, annotation, stable_label>>

\* session.delete(key): the backrefs labels, features and predictions cascade
DeleteAnnotationKey(k) ==
    /\ Step
    /\ \E r \in annotation_key : r.id = k
    /\ annotation_key' = {r \in annotation_key : r.id # k}
    /\ annotation' = [t \in AnnotationTables |-> annotation[t] \ KeyChildren(t, k)]
    /\ last' = Done("delete_key", k, 0, "ok",
                     UNION {Removed(t, KeyChildren(t, k)) : t \in AnnotationTables})
    /\ UNCHANGED <<candidate, stable_label>>

\* key.name = n on a persistent AnnotationKey
UpdateAnnotationKeyName(k, n) ==
    /\ Step
    /\ \E old \in annotation_key :
         /\ old.id = k
         /\ LET row == KeyRow(k, n)
                bad == KeyViolations(row, annotation_key \ {old})
            IN  IF bad = {}
                THEN /\ annotation_key' = (annotation_key \ {old}) \cup {row}
                     /\ last' = Op("update_key", 0, 0, "ok")
                ELSE /\ annotation_key' = annotation_key
                     /\ \E e \in bad :
                          last' = Op("update_key", 0, 0, e)
    /\ UNCHANGED <<candidate, annotation, stable_label>>

\* ---- Candidate --------------------------------------------------------------
InsertCandidate(c) ==
    /\ Step
    /\ c \notin candidate
    /\ candidate' = candidate \cup {c}
    /\ last' = Op("insert_candidate", 0, 0, "ok")
    /\ UNCHANGED <<annotation_key, annotation, stable_label>>

\* session.delete(candidate): the backrefs labels, features and predictions cascade
DeleteCandidate(c) ==
    /\ Step
    /\ c \in candidate
    /\ candidate' = candidate \ {c}
    /\ annotation' = [t \in AnnotationTables |->
                        annotation[t] \ CandidateChildren(t, c)]
    /\ last' = Done("delete_candidate", 0, c, "ok",
                     UNION {Removed(t, CandidateChildren(t, c)) : t \in AnnotationTables})
    /\ UNCHANGED <<annotation_key, stable_label>>

\* ---- Label / Feature / Prediction -------------------------------------------
InsertAnnotation(t, k, c, v) ==
    /\ Step
    /\ LET row == AnnotationRow(k, c, v)
           bad == AnnotationViolations(t, row, annotation[t])
       IN  IF bad = {}
           THEN /\ annotation' = [annotation EXCEPT ![t] = @ \cup {row}]
                /\ last' = Op("insert_annotation", 0, 0, "ok")
           ELSE /\ annotation' = annotation
                /\ \E e \in bad : last' = Op("insert_annotation", 0, 0, e)
    /\ UNCHANGED <<annotation_key, candidate, stable_label>>

DeleteAnnotation(t, k, c) ==
    /\ Step
    /\ \E r \in annotation[t] :
         /\ r.key_id = k /\ r.candidate_id = c
         /\ annotation' = [annotation EXCEPT ![t] = @ \ {r}]
    /\ last' = Op("delete_annotation", 0, 0, "ok")
    /\ UNCHANGED <<annotation_key, candidate, stable_label>>

\* ---- StableLabel ------------------------------------------------------------
InsertStableLabel(x, a, s, v) ==
    /\ Step
    /\ LET row == StableRow(x, a, SplitDefault(s), v)
           bad == StableViolations(row, stable_label)
       IN  IF bad = {}
           THEN /\ stable_label' = stable_label \cup {row}
                /\ last' = Op("insert_stable_label", 0, 0, "ok")
           ELSE /\ stable_label' = stable_label
                /\ \E e \in bad :
                     last' = Op("insert_stable_label", 0, 0, e)
    /\ UNCHANGED <<annotation_key, candidate, annotation>>

DeleteStableLabel(x, a) ==
    /\ Step
    /\ \E r \in stable_label :
         /\ r.context_stable_ids = x /\ r.annotator_name = a
         /\ stable_label' = stable_label \ {r}
    /\ last' = Op("delete_stable_label", 0, 0, "ok")
    /\ UNCHANGED <<annotation_key, candidate, annotation>>

Next ==
    \/ \E i \in Opt(KeyIds), n \in Opt(Names) : InsertAnnotationKey(i, n)
    \/ \E k \in KeyIds : DeleteAnnotationKey(k)
    \/ \E k \in KeyIds, n \in Opt(Names) : UpdateAnnotationKeyName(k, n)
    \/ \E c \in CandIds : InsertCandidate(c)
    \/ \E c \in CandIds : DeleteCandidate(c)
    \/ \E t \in AnnotationTables, k \in KeyIds, c \in CandIds, v \in Opt(Values) :
         InsertAnnotation(t, k, c, v)
    \/ \E t \in AnnotationTables, k \in KeyIds, c \in CandIds :
         DeleteAnnotation(t, k, c)
    \/ \E x \in Contexts, a \in Annotators, s \in Opt(Splits), v \in Opt(Values) :
         InsertStableLabel(x, a, s, v)
    \/ \E x \in Contexts, a \in Annotators : DeleteStableLabel(x, a)

Spec == Init /\ [][Next]_vars

\* ---- helpers of the properties ----------------------------------------------
HasKey(k) == \E r \in annotation_key : r.id = k

HasName(n) == \E r \in annotation_key : r.name = n

HasAnnotation(t, k, c) ==
    \E r \in annotation[t] : r.key_id = k /\ r.candidate_id = c

HasStable(x, a) ==
    \E r \in stable_label : r.context_stable_ids = x /\ r.annotator_name = a

\* the names the id k resolves to in the key table tbl
NamesOf(tbl, k) == {r.name : r \in {q \in tbl : q.id = k}}

\* the step added exactly the row r to the annotation table t
Added(t, r) ==
    /\ r \notin annotation[t]
    /\ annotation' = [annotation EXCEPT ![t] = @ \cup {r}]

\* C1: no two AnnotationKey rows have the same name; an insert is accepted
\* only when no row has its name (or its id) and then adds that one row, and a
\* rejected insert, the one with a name a row already has among them, leaves
\* annotation_key unchanged.
C1_UniqueName ==
    /\ [](\A r1, r2 \in annotation_key : r1.name = r2.name => r1 = r2)
    /\ [][last'.op = "insert_key" =>
            IF last'.res = "ok"
            THEN \E row \in annotation_key' :
                   /\ annotation_key' = annotation_key \cup {row}
                   /\ ~ HasName(row.name)
                   /\ ~ HasKey(row.id)
            ELSE /\ annotation_key' = annotation_key
                 /\ last'.res \in {"unique", "primary_key", "not_null"}
                 /\ (last'.res = "unique" => annotation_key # {})]_vars

C1_Witness ==
    /\ last.op = "insert_key"
    /\ last.res = "unique"
    /\ annotation_key # {}

\* C2: deleting Candidate c leaves no label, feature or prediction row with
\* candidate_id = c and leaves stable_label exactly as it was.
C2_CandidateCascade ==
    [][last'.op = "delete_candidate" =>
         /\ \A t \in AnnotationTables :
              \A r \in annotation'[t] : r.candidate_id # last'.cand
         /\ last'.cand \in candidate
         /\ last'.cand \notin candidate'
         /\ stable_label' = stable_label]_vars

C2_Witness ==
    /\ last.op = "delete_candidate"
    /\ {d[1] : d \in last.removed} = AnnotationTables

\* C3: deleting AnnotationKey k leaves no label, feature or prediction row with
\* key_id = k, whatever candidates those rows referred to.
C3_KeyCascade ==
    [][last'.op = "delete_key" =>
         /\ \A t \in AnnotationTables :
              \A r \in annotation'[t] : r.key_id # last'.key
         /\ NamesOf(annotation_key, last'.key) # {}
         /\ NamesOf(annotation_key', last'.key) = {}]_vars

C3_Witness ==
    /\ last.op = "delete_key"
    /\ \E d1, d2 \in last.removed : d1[3] # d2[3]

\* C4: each of label, feature and prediction holds at most one row per
\* (key_id, candidate_id); an insert is accepted only when its table holds no
\* row of its pair, and a rejected insert leaves the tables unchanged.
C4_OneRowPerPair ==
    /\ [](\A t \in AnnotationTables : \A r1, r2 \in annotation[t] :
            (r1.key_id = r2.key_id /\ r1.candidate_id = r2.candidate_id)
                => r1 = r2)
    /\ [][last'.op = "insert_annotation" =>
            IF last'.res = "ok"
            THEN \E t \in AnnotationTables : \E r \in annotation'[t] :
                   Added(t, r) /\ ~ HasAnnotation(t, r.key_id, r.candidate_id)
            ELSE annotation' = annotation]_vars

C4_Witness ==
    /\ last.op = "insert_annotation"
    /\ last.res = "primary_key"

\* C5: every label, feature and prediction row refers to an existing
\* AnnotationKey and an existing Candidate; an insert is accepted only when
\* its key and its candidate exist, and a rejected insert leaves the tables
\* unchanged.
C5_ForeignKeys ==
    /\ [](\A t \in AnnotationTables : \A r \in annotation[t] :
            HasKey(r.key_id) /\ r.candidate_id \in candidate)
    /\ [][last'.op = "insert_annotation" =>
            IF last'.res = "ok"
            THEN \E t \in AnnotationTables : \E r \in annotation'[t] :
                   Added(t, r) /\ HasKey(r.key_id) /\ r.candidate_id \in candidate
            ELSE /\ annotation' = annotation
                 /\ (last'.res = "foreign_key" =>
                        \E k \in KeyIds, c \in CandIds :
                            ~ HasKey(k) \/ c \notin candidate)]_vars

C5_Witness ==
    /\ last.op = "insert_annotation"
    /\ last.res = "foreign_key"
    /\ \E t \in AnnotationTables : annotation[t] # {}

\* C6: a StableLabel with a value and a fresh primary key is inserted whatever
\* the candidate table holds, and only StableLabel operations change
\* stable_label.
C6_StableIndependent ==
    [][/\ last'.op = "insert_stable_label" =>
            \A x \in Contexts, a \in Annotators, s \in Opt(Splits), v \in Values :
               (~ HasStable(x, a) /\ InsertStableLabel(x, a, s, Some(v))) =>
                   /\ last'.res = "ok"
                   /\ HasStable(x, a)'
       /\ (last'.op \notin {"insert_stable_label", "delete_stable_label"})
              => stable_label' = stable_label]_vars

C6_Witness ==
    /\ last.op = "insert_stable_label"
    /\ last.res = "ok"
    /\ candidate = {}
    /\ stable_label # {}

\* C7: no stored label, feature, prediction or stable_label row has a NULL
\* value and no AnnotationKey row a NULL name; an operation rejected with a
\* not-null violation leaves every table unchanged.
C7_NotNull ==
    /\ [](/\ \A t \in AnnotationTables : \A r \in annotation[t] : r.value # NULL
          /\ \A r \in stable_label : r.value # NULL
          /\ \A r \in annotation_key : r.name # NULL)
    /\ [][last'.res = "not_null" => tables' = tables]_vars

C7_Witness ==
    /\ last.op \in {"insert_annotation", "insert_stable_label", "insert_key"}
    /\ last.res = "not_null"

\* C8 as stated: from its insert until its deletion an AnnotationKey row keeps
\* its id and name under every operation.
C8_NeverMutated ==
    [][\A k \in KeyIds :
         (HasKey(k) /\ HasKey(k)') =>
             NamesOf(annotation_key', k) = NamesOf(annotation_key, k)]_vars

\* C8 amended: from its insert until its deletion an AnnotationKey row keeps its
\* id and name under every insert and delete of any row; an assignment to name
\* is the one operation that changes it.
C8_UnchangedByInsertDelete ==
    [][\A k \in KeyIds :
         (HasKey(k) /\ HasKey(k)' /\ last'.op # "update_key") =>
             NamesOf(annotation_key', k) = NamesOf(annotation_key, k)]_vars

C8_Witness ==
    /\ last.op = "insert_key"
    /\ last.res = "primary_key"
    /\ \E t \in AnnotationTables : annotation[t] # {}

\* C9: stable_label holds at most one row per (context_stable_ids,
\* annotator_name); an insert with a value is rejected when a row has its pair
\* and accepted otherwise, other annotators' rows for the context or not, and
\* the row is stored with split 0 when no split was given.
C9_StableKeyAndSplit ==
    /\ [](\A r1, r2 \in stable_label :
            (r1.context_stable_ids = r2.context_stable_ids
             /\ r1.annotator_name = r2.annotator_name) => r1 = r2)
    /\ [][last'.op = "insert_stable_label" =>
            \A x \in Contexts, a \in Annotators, s \in Opt(Splits), v \in Values :
               InsertStableLabel(x, a, s, Some(v)) =>
                   IF HasStable(x, a)
                   THEN stable_label' = stable_label /\ last'.res = "primary_key"
                   ELSE /\ last'.res = "ok"
                        /\ \E r \in stable_label' :
                             /\ r.context_stable_ids = x
                             /\ r.annotator_name = a
                             /\ r.split = (IF s = NULL THEN Some(0) ELSE s)]_vars

C9_Witness ==
    /\ last.op = "insert_stable_label"
    /\ last.res = "ok"
    /\ \E r1, r2 \in stable_label :
         /\ r1.context_stable_ids = r2.context_stable_ids
         /\ r1.annotator_name # r2.annotator_name
         /\ r1.split = Some(0)
         /\ r2.split # Some(0)

\* C10: deleting Candidate c leaves annotation_key and every annotation row of
\* another candidate unchanged; deleting AnnotationKey k leaves candidate and
\* every annotation row of another key unchanged.
C10_CascadeFrame ==
    [][/\ last'.op = "delete_candidate" =>
            /\ annotation_key' = annotation_key
            /\ candidate' = candidate \ {last'.cand}
            /\ \A t \in AnnotationTables :
                 {r \in annotation'[t] : r.candidate_id # last'.cand}
                     = {r \in annotation[t] : r.candidate_id # last'.cand}
       /\ last'.op = "delete_key" =>
            /\ candidate' = candidate
            /\ {r \in annotation_key' : r.id # last'.key}
                   = {r \in annotation_key : r.id # last'.key}
            /\ \A t \in AnnotationTables :
                 {r \in annotation'[t] : r.key_id # last'.key}
                     = {r \in annotation[t] : r.key_id # last'.key}]_vars

C10_Witness ==
    /\ last.op = "delete_candidate"
    /\ last.removed # {}
    /\ \E t \in AnnotationTables : annotation[t] # {}

=============================================================================
